---------------------------- MODULE Spec2Model ----------------------------
(***************************************************************************)
(* Chunked, resumable upload backend: the upload session rows (PostgreSQL  *)
(* table "uploads"), the Redis session cache and chunk index, the          *)
(* temporary chunk files and the assembled final file, and the request     *)
(* handlers of UploadController / UploadService / ChunkService, one        *)
(* action per await point of each handler.                                 *)
(*                                                                         *)
(* Configuration modelled: the development defaults, where useS3 is false  *)
(* (config/index.ts:12,29 with chunkService.ts:22), so chunk bytes live on *)
(* the local file system only.  Files are byte sequences; a request's      *)
(* `data` is the decoded Buffer.                                           *)
(***************************************************************************)
EXTENDS Integers, Sequences, FiniteSets, TLC

\* ------------------------------------------------------------ bounds
NumProcs == 2
NumSessions == 1
\* Requests on sessions under Spec, SpecAny, SpecExpiry, SpecSizes, SpecStatus.
MaxRequests == 4
MaxAnyRequests == 3
MaxExpiryRequests == 3
MaxSizesRequests == 3
MaxStatusRequests == 3
MaxLiveRequests == 3
MaxFaultRequests == 3
MaxCommuteRequests == 3
MaxKeyIndex == 10
MaxKeys == 3

\* ------------------------------------------------- program constants
\* config.upload.chunkSize and config.upload.maxFileSize, scaled down.
ChunkSize == 2
MaxFileSize == 3

Procs == 1..NumProcs
Sessions == 1..NumSessions
\* An upload id no initializeUpload ever returned.
UnknownId == 0

\* The client's file of a given size: bytes 1, 2, ..., size.
Blob(size) == [k \in 1..size |-> k]

\* TotalChunksOf rounding down and adding one chunk.
TotalChunksOfFloorPlusOne(fileSize) == fileSize \div ChunkSize + 1

\* Math.ceil(request.fileSize / config.upload.chunkSize)
TotalChunksOf(fileSize) == (fileSize + ChunkSize - 1) \div ChunkSize

Min(a, b) == IF a < b THEN a ELSE b

\* Chunk i (0-based) of a blob: bytes i*ChunkSize+1 .. min((i+1)*ChunkSize, N).
ChunkOf(blob, i) ==
  SubSeq(blob, i * ChunkSize + 1, Min((i + 1) * ChunkSize, Len(blob)))

\* Declared sizes a client sends: none, the largest allowed, one byte too many.
FileSizes == {0, MaxFileSize, MaxFileSize + 1}
\* Every declared size around the limits: negative, zero, 1..max, max + 1.
AllFileSizes == (0 - 1)..(MaxFileSize + 1)
\* Payloads a client may send: the chunks of the files it may declare.
Payloads ==
  { ChunkOf(Blob(n), i) : n \in FileSizes \cap (1..MaxFileSize),
                          i \in 0..(TotalChunksOf(MaxFileSize) - 1) } \ { <<>> }

\* sha256 over the bytes, as an injective tagging of the content.
calculateChecksum(bytes) == <<"sha256", bytes>>
NoChecksum == <<>>

NoFile == <<-1>>
NoRec == -1
NoPath == "null"
StatusSet == {"INIT", "UPLOADING", "ASSEMBLING", "COMPLETED", "FAILED"}
NoRow == [status |-> "NONE", filePath |-> NoPath, fileSize |-> 0,
          totalChunks |-> 0, checksum |-> NoChecksum]

VARIABLES
  uploads,       \* uploads[s]: the row of table uploads, or NoRow
  redisSession,  \* redisSession[s]: cached session status under upload:{s}, or "NONE"
  redisChunk,    \* redisChunk[s][i]: size in the record chunk:{s}:{i}, or NoRec
  tempDir,       \* tempDir[s]: the directory tempDir/{s} exists
  tempFiles,     \* tempFiles[s][i]: bytes of tempDir/{s}/chunk_{i}, or NoFile
  finalFiles,    \* finalFiles[s]: bytes of finalDir/{s}/{fileName}, or NoFile
  expired,       \* expired[s]: NOW() is past expires_at of s
  pc,            \* pc[p]: the await point request slot p stands at
  loc,           \* loc[p]: the locals of the request running in slot p
  budget,        \* requests on sessions the clients may still send
  hOverlap       \* history: the chunk keys two store calls ever overlapped on

vars == <<uploads, redisSession, redisChunk, tempDir, tempFiles, finalFiles,
          expired, pc, loc, budget, hOverlap>>

shared == <<uploads, redisSession, redisChunk, tempDir, tempFiles, finalFiles, expired>>

MaxIndex == TotalChunksOf(MaxFileSize)
Indices == 0..(MaxIndex - 1)

NoLoc == [op |-> "none", sid |-> UnknownId, chunkIndex |-> 0, data |-> <<>>,
          checksum |-> NoChecksum,
          session |-> "NONE", alreadyExists |-> FALSE, size |-> 0,
          newStatus |-> "NONE", filePath |-> NoPath, usRet |-> "none",
          clRet |-> "none", indices |-> {}, missing |-> <<>>, i |-> 0,
          cached |-> FALSE,
          pos |-> 0, meta |-> NoRec, rows |-> {}, cleaned |-> 0,
          uploaded |-> 0, conc |-> {}, result |-> "none", code |-> "none",
          aiPipeline |-> "none", keys |-> <<>>, indexList |-> <<>>]

InitShared ==
  /\ uploads = [s \in Sessions |-> NoRow]
  /\ redisSession = [s \in Sessions |-> "NONE"]
  /\ redisChunk = [s \in Sessions |-> [i \in Indices |-> NoRec]]
  /\ tempDir = [s \in Sessions |-> FALSE]
  /\ tempFiles = [s \in Sessions |-> [i \in Indices |-> NoFile]]
  /\ finalFiles = [s \in Sessions |-> NoFile]
  /\ expired = [s \in Sessions |-> FALSE]
  /\ pc = [p \in Procs |-> "idle"]
  /\ loc = [p \in Procs |-> NoLoc]
  /\ hOverlap = {}

Init == InitShared /\ budget = MaxRequests
InitAny == InitShared /\ budget = MaxAnyRequests
InitExpiry == InitShared /\ budget = MaxExpiryRequests
InitSizes == InitShared /\ budget = MaxSizesRequests
InitStatus == InitShared /\ budget = MaxStatusRequests
InitLive == InitShared /\ budget = MaxLiveRequests
InitFaults == InitShared /\ budget = MaxFaultRequests
InitCommute == InitShared /\ budget = MaxCommuteRequests


\* ------------------------------------------------------------ helpers
totalChunks(s) == uploads[s].totalChunks

\* Ids whose initializeUpload has responded: the client knows them.
Issued ==
  { s \in Sessions : /\ uploads[s].status # "NONE"
                     /\ \A p \in Procs : ~(pc[p] = "in_cache" /\ loc[p].sid = s) }

\* uuidv4: an id no session has yet.
FreshIds ==
  { s \in Sessions : /\ uploads[s].status = "NONE"
                     /\ \A p \in Procs : ~(pc[p] = "in_db" /\ loc[p].sid = s) }

Free(p) == pc[p] \in {"idle", "done"}
\* A slot takes a new request on a session while the request budget lasts.
CanStart(p) == Free(p) /\ budget > 0

\* What stays of a request once it has been answered: the response.
Response(l) ==
  [NoLoc EXCEPT !.op = l.op, !.sid = l.sid, !.chunkIndex = l.chunkIndex,
                !.size = l.size, !.uploaded = l.uploaded,
                !.missing = l.missing, !.conc = l.conc, !.cleaned = l.cleaned,
                !.filePath = l.filePath, !.result = l.result, !.code = l.code,
                !.aiPipeline = l.aiPipeline]

Finish(p, l, result, code) ==
  /\ pc' = [pc EXCEPT ![p] = "done"]
  /\ loc' = [loc EXCEPT ![p] = Response([l EXCEPT !.result = result, !.code = code])]

\* ValidationService.validateFileSize
validateFileSize(fileSize, maxSize) == fileSize > 0 /\ fileSize <= maxSize

\* ------------------------------------------- POST /api/upload/init
\* initializeRequest with the comparisons against maxFileSize left out.
initializeRequestNoMaxSize(p, fileSize, withChecksum) ==
  LET l == [NoLoc EXCEPT !.op = "init", !.size = fileSize,
                         !.checksum = IF withChecksum /\ fileSize > 0
                                  THEN calculateChecksum(Blob(fileSize))
                                  ELSE NoChecksum]
  IN IF fileSize <= 0 \/ TotalChunksOf(fileSize) = 0
     THEN Finish(p, l, "error", "VALIDATION_ERROR")
     ELSE /\ FreshIds # {}
          /\ LET s == CHOOSE x \in FreshIds : \A y \in FreshIds : x <= y
             IN /\ pc' = [pc EXCEPT ![p] = "in_db"]
                /\ loc' = [loc EXCEPT ![p] = [l EXCEPT !.sid = s]]

\* UploadController.initializeUpload up to the INSERT of the service, for a
\* request declaring fileSize (with or without the checksum of its file):
\* validateFileSize in the controller, then the two checks of
\* UploadService.initializeUpload.  (A size <= 0 is turned down before that by
\* validateBody(uploadInitSchema), with the same ValidationError.)
initializeRequest(p, fileSize, withChecksum) ==
  LET l == [NoLoc EXCEPT !.op = "init", !.size = fileSize,
                         !.checksum = IF withChecksum /\ fileSize > 0
                                  THEN calculateChecksum(Blob(fileSize))
                                  ELSE NoChecksum]
  IN IF ~validateFileSize(fileSize, MaxFileSize)
       \/ fileSize > MaxFileSize
       \/ TotalChunksOf(fileSize) = 0
     THEN Finish(p, l, "error", "VALIDATION_ERROR")
     ELSE /\ FreshIds # {}
          /\ LET s == CHOOSE x \in FreshIds : \A y \in FreshIds : x <= y
             IN /\ pc' = [pc EXCEPT ![p] = "in_db"]
                /\ loc' = [loc EXCEPT ![p] = [l EXCEPT !.sid = s]]

initializeUpload(p) ==
  /\ Free(p)
  /\ \E fileSize \in FileSizes :
     \E withChecksum \in BOOLEAN :
       initializeRequest(p, fileSize, withChecksum)
  /\ UNCHANGED <<shared, budget, hOverlap>>

\* The same with every declared size from -1 to one past the limit.
initializeAnySize(p) ==
  /\ Free(p)
  /\ \E fileSize \in AllFileSizes :
     \E withChecksum \in BOOLEAN :
       initializeRequest(p, fileSize, withChecksum)
  /\ UNCHANGED <<shared, budget, hOverlap>>

\* withTransaction(INSERT INTO uploads ...)
initializeInsert(p) ==
  /\ pc[p] = "in_db"
  /\ uploads' = [uploads EXCEPT ![loc[p].sid] =
                   [status |-> "INIT", filePath |-> NoPath, fileSize |-> loc[p].size,
                    totalChunks |-> TotalChunksOf(loc[p].size),
                    checksum |-> loc[p].checksum]]
  /\ pc' = [pc EXCEPT ![p] = "in_cache"]
  /\ UNCHANGED <<redisSession, redisChunk, tempDir, tempFiles, finalFiles,
                 expired, loc, budget, hOverlap>>

\* redis.setex(sessionKey, ..., JSON.stringify(session)) and the response
initializeCache(p) ==
  /\ pc[p] = "in_cache"
  /\ redisSession' = [redisSession EXCEPT ![loc[p].sid] = "INIT"]
  /\ Finish(p, loc[p], "created", "none")
  /\ UNCHANGED <<uploads, redisChunk, tempDir, tempFiles, finalFiles,
                 expired, budget, hOverlap>>

\* ------------------------------------------ UploadService.getUploadSession
\* AfterSession with the index checked against the totalChunks of the request
\* body (whatever the client claims, here the most a file can have) instead
\* of session.totalChunks.
AfterSessionClientTotal(l) ==
  CASE l.op = "upload" ->
         IF l.chunkIndex < 0 \/ l.chunkIndex >= MaxIndex
         THEN [pc |-> "done",
               loc |-> Response([l EXCEPT !.result = "error", !.code = "VALIDATION_ERROR"])]
         ELSE [pc |-> "sc_get", loc |-> l]
    [] l.op = "status" -> [pc |-> "st_count", loc |-> l]
    [] l.op = "complete" ->
         [pc |-> "us_db",
          loc |-> [l EXCEPT !.newStatus = "ASSEMBLING", !.usRet = "ra_indices"]]

\* What the handler does once it holds the session.
AfterSession(l) ==
  CASE l.op = "upload" ->
         IF l.chunkIndex < 0 \/ l.chunkIndex >= totalChunks(l.sid)
         THEN [pc |-> "done",
               loc |-> Response([l EXCEPT !.result = "error", !.code = "VALIDATION_ERROR"])]
         ELSE [pc |-> "sc_get", loc |-> l]
    [] l.op = "status" -> [pc |-> "st_count", loc |-> l]
    [] l.op = "complete" ->
         [pc |-> "us_db",
          loc |-> [l EXCEPT !.newStatus = "ASSEMBLING", !.usRet = "ra_indices"]]

\* redis.get(sessionKey): a hit returns JSON.parse(cached), whose createdAt,
\* updatedAt and expiresAt are the ISO strings JSON.stringify wrote, not
\* Dates.  `cached` records that for getUploadStatus, the one caller that
\* invokes a Date method on them.
getUploadSessionCache(p) ==
  /\ pc[p] = "gs_cache"
  /\ LET s == loc[p].sid
     IN IF s \in Sessions /\ redisSession[s] # "NONE"
        THEN LET n == AfterSession([loc[p] EXCEPT !.session = redisSession[s],
                                                 !.cached = (loc[p].op = "status")])
             IN /\ pc' = [pc EXCEPT ![p] = n.pc]
                /\ loc' = [loc EXCEPT ![p] = n.loc]
        ELSE /\ pc' = [pc EXCEPT ![p] = "gs_db"]
             /\ loc' = loc
  /\ UNCHANGED <<shared, budget, hOverlap>>

\* getUploadSessionDb throwing a plain Error instead of NotFoundError.
getUploadSessionDbGenericError(p) ==
  /\ pc[p] = "gs_db"
  /\ LET s == loc[p].sid
     IN IF s \notin Sessions \/ uploads[s].status = "NONE"
        THEN Finish(p, loc[p], "error", "INTERNAL_ERROR")
        ELSE /\ pc' = [pc EXCEPT ![p] = "gs_setex"]
             /\ loc' = [loc EXCEPT ![p].session = uploads[s].status]
  /\ UNCHANGED <<shared, budget, hOverlap>>

\* SELECT * FROM uploads WHERE upload_id = $1
getUploadSessionDb(p) ==
  /\ pc[p] = "gs_db"
  /\ LET s == loc[p].sid
     IN IF s \notin Sessions \/ uploads[s].status = "NONE"
        THEN Finish(p, loc[p], "error", "NOT_FOUND")
        ELSE /\ pc' = [pc EXCEPT ![p] = "gs_setex"]
             /\ loc' = [loc EXCEPT ![p].session = uploads[s].status]
  /\ UNCHANGED <<shared, budget, hOverlap>>

\* redis.setex(sessionKey, ..., JSON.stringify(session)): cache for next time
getUploadSessionSetex(p) ==
  /\ pc[p] = "gs_setex"
  /\ redisSession' = [redisSession EXCEPT ![loc[p].sid] = loc[p].session]
  /\ LET n == AfterSession(loc[p])
     IN /\ pc' = [pc EXCEPT ![p] = n.pc]
        /\ loc' = [loc EXCEPT ![p] = n.loc]
  /\ UNCHANGED <<uploads, redisChunk, tempDir, tempFiles, finalFiles,
                 expired, budget, hOverlap>>

\* ---------------------------------------- UploadService.updateUploadStatus
\* withTransaction(UPDATE uploads SET status = $1 [, file_path = $3] ...)
updateUploadStatus(p) ==
  /\ pc[p] = "us_db"
  /\ LET s == loc[p].sid
     IN uploads' = [uploads EXCEPT ![s] =
          IF uploads[s].status = "NONE" THEN uploads[s]
          ELSE [uploads[s] EXCEPT
                  !.status = loc[p].newStatus,
                  !.filePath = IF loc[p].filePath # NoPath THEN loc[p].filePath
                               ELSE uploads[s].filePath]]
  /\ pc' = [pc EXCEPT ![p] = "us_del"]
  /\ UNCHANGED <<redisSession, redisChunk, tempDir, tempFiles, finalFiles,
                 expired, loc, budget, hOverlap>>

\* The rows cleanupExpiredUploads still has to handle: the next one, or the end.
SweepContinue(l) ==
  IF l.rows = {}
  THEN [pc |-> "done", loc |-> Response([l EXCEPT !.result = "swept"])]
  ELSE LET s == CHOOSE x \in l.rows : \A y \in l.rows : x <= y
       IN [pc |-> "cl_keys",
           loc |-> [l EXCEPT !.sid = s, !.rows = l.rows \ {s}]]

\* Where updateUploadStatus returns to.
AfterStatus(l) ==
  CASE l.usRet = "throw" -> [pc |-> "done", loc |-> Response([l EXCEPT !.result = "error"])]
    [] l.usRet = "sweep" -> SweepContinue([l EXCEPT !.cleaned = l.cleaned + 1])
    [] OTHER -> [pc |-> l.usRet, loc |-> l]

\* redis.del(sessionKey): invalidate the cache
updateUploadStatusDel(p) ==
  /\ pc[p] = "us_del"
  /\ redisSession' = [redisSession EXCEPT ![loc[p].sid] = "NONE"]
  /\ LET n == AfterStatus([loc[p] EXCEPT !.filePath = NoPath])
     IN /\ pc' = [pc EXCEPT ![p] = n.pc]
        /\ loc' = [loc EXCEPT ![p] = n.loc]
  /\ UNCHANGED <<uploads, redisChunk, tempDir, tempFiles, finalFiles,
                 expired, budget, hOverlap>>

\* ------------------------------------------- POST /api/upload/chunk
\* Store calls for the same chunk key that are in flight in other slots.
InFlightStore(p, s, i) ==
  { q \in Procs \ {p} : /\ loc[q].op = "upload" /\ pc[q] # "done"
                        /\ loc[q].sid = s /\ loc[q].chunkIndex = i }

\* UploadController.uploadChunk: the request arrives with `data` for chunk i
\* of upload s.  loc[q].conc collects the slots whose store call for the same
\* chunk overlapped with q's.
uploadChunkRequest(p, s, i, data) ==
  /\ CanStart(p)
  /\ LET others == IF s \in Sessions /\ i \in Indices
                   THEN InFlightStore(p, s, i) ELSE {}
     IN /\ pc' = [pc EXCEPT ![p] = "gs_cache"]
        /\ loc' = [q \in Procs |->
             IF q = p
             THEN [NoLoc EXCEPT !.op = "upload", !.sid = s, !.chunkIndex = i,
                                !.data = data, !.conc = others]
             ELSE IF q \in others THEN [loc[q] EXCEPT !.conc = @ \cup {p}]
             ELSE loc[q]]
        /\ hOverlap' = IF others # {} THEN hOverlap \cup {<<s, i>>} ELSE hOverlap
  /\ budget' = budget - 1
  /\ UNCHANGED shared

\* The client sends chunk i of its file (or, for an index past the end or an
\* unknown upload, some chunk).
uploadChunk(p) ==
  \E s \in Issued \cup {UnknownId} :
  \E i \in 0..MaxIndex :
    uploadChunkRequest(p, s, i,
      IF s \in Sessions /\ i < totalChunks(s)
      THEN ChunkOf(Blob(uploads[s].fileSize), i)
      ELSE ChunkOf(Blob(MaxFileSize), 0))

\* The client sends chunk i of its file under any index from -1 to one past
\* the largest a session can have.  validateBody(chunkUploadSchema) turns a
\* negative chunkIndex down before the controller runs.
uploadAnyIndex(p) ==
  \E s \in Issued \cup {UnknownId} :
  \E i \in (0 - 1)..MaxIndex :
    IF i < 0
    THEN /\ CanStart(p)
         /\ Finish(p, [NoLoc EXCEPT !.op = "upload", !.sid = s, !.chunkIndex = i],
                   "error", "VALIDATION_ERROR")
         /\ budget' = budget - 1
         /\ UNCHANGED <<shared, hOverlap>>
    ELSE uploadChunkRequest(p, s, i,
           IF s \in Sessions /\ i < totalChunks(s)
           THEN ChunkOf(Blob(uploads[s].fileSize), i)
           ELSE ChunkOf(Blob(MaxFileSize), 0))

\* The client sends any payload as chunk i.
uploadAnyChunk(p) ==
  \E s \in Issued \cup {UnknownId} :
  \E i \in 0..MaxIndex :
  \E data \in Payloads :
    uploadChunkRequest(p, s, i, data)

\* AfterStore writing UPLOADING only for the chunk with index 0.
AfterStoreFirstIndexOnly(l) ==
  IF l.session = "INIT" /\ l.chunkIndex = 0
  THEN [pc |-> "us_db",
        loc |-> [l EXCEPT !.newStatus = "UPLOADING", !.usRet = "uc_respond"]]
  ELSE [pc |-> "uc_respond", loc |-> l]

\* After storeChunk returned: "Update session status if needed"
AfterStore(l) ==
  IF l.session = "INIT"
  THEN [pc |-> "us_db",
        loc |-> [l EXCEPT !.newStatus = "UPLOADING", !.usRet = "uc_respond"]]
  ELSE [pc |-> "uc_respond", loc |-> l]

\* ChunkService.storeChunk: redis.get(chunkKey), the idempotency check
storeChunk(p) ==
  /\ pc[p] = "sc_get"
  /\ LET s == loc[p].sid
         existingChunk == redisChunk[s][loc[p].chunkIndex]
     IN IF existingChunk # NoRec
        THEN LET n == AfterStore([loc[p] EXCEPT !.alreadyExists = TRUE,
                                                !.size = existingChunk])
             IN /\ pc' = [pc EXCEPT ![p] = n.pc]
                /\ loc' = [loc EXCEPT ![p] = n.loc]
        ELSE /\ pc' = [pc EXCEPT ![p] = "sc_dir"]
             /\ loc' = loc
  /\ UNCHANGED <<shared, budget, hOverlap>>

\* fs.ensureDir(tempDir)
storeChunkEnsureDir(p) ==
  /\ pc[p] = "sc_dir"
  /\ tempDir' = [tempDir EXCEPT ![loc[p].sid] = TRUE]
  /\ pc' = [pc EXCEPT ![p] = "sc_write"]
  /\ UNCHANGED <<uploads, redisSession, redisChunk, tempFiles, finalFiles,
                 expired, loc, budget, hOverlap>>

\* storeChunkWriteFile with the chunk key set before the file is written and
\* not deleted when the write fails.
storeChunkWriteFileRecordFirst(p) ==
  /\ pc[p] = "sc_write"
  /\ LET s == loc[p].sid
     IN IF tempDir[s]
        THEN /\ tempFiles' = [tempFiles EXCEPT ![s][loc[p].chunkIndex] = loc[p].data]
             /\ redisChunk' = redisChunk
             /\ pc' = [pc EXCEPT ![p] = "sc_setex"]
             /\ loc' = loc
        ELSE /\ tempFiles' = tempFiles
             /\ redisChunk' = [redisChunk EXCEPT ![s][loc[p].chunkIndex] =
                                 Len(loc[p].data)]
             /\ Finish(p, loc[p], "error", "INTERNAL_ERROR")
  /\ UNCHANGED <<uploads, redisSession, tempDir, finalFiles,
                 expired, budget, hOverlap>>

\* fs.writeFile(chunkPath, data): fails when the directory is gone again
storeChunkWriteFile(p) ==
  /\ pc[p] = "sc_write"
  /\ LET s == loc[p].sid
     IN IF tempDir[s]
        THEN /\ tempFiles' = [tempFiles EXCEPT ![s][loc[p].chunkIndex] = loc[p].data]
             /\ pc' = [pc EXCEPT ![p] = "sc_setex"]
             /\ loc' = loc
        ELSE /\ tempFiles' = tempFiles
             /\ Finish(p, loc[p], "error", "INTERNAL_ERROR")
  /\ UNCHANGED <<uploads, redisSession, redisChunk, tempDir, finalFiles,
                 expired, budget, hOverlap>>

\* redis.setex(chunkKey, ..., JSON.stringify(metadata)); size: data.length
storeChunkSetex(p) ==
  /\ pc[p] = "sc_setex"
  /\ redisChunk' = [redisChunk EXCEPT ![loc[p].sid][loc[p].chunkIndex] = Len(loc[p].data)]
  /\ LET n == AfterStore([loc[p] EXCEPT !.alreadyExists = FALSE,
                                        !.size = Len(loc[p].data)])
     IN /\ pc' = [pc EXCEPT ![p] = n.pc]
        /\ loc' = [loc EXCEPT ![p] = n.loc]
  /\ UNCHANGED <<uploads, redisSession, tempDir, tempFiles, finalFiles,
                 expired, budget, hOverlap>>

\* ChunkService.getChunkIndices: the indices of the keys chunk:{s}:*
getChunkIndices(s) == { i \in Indices : redisChunk[s][i] # NoRec }

\* ChunkService.getChunkCount
getChunkCount(s) == Cardinality(getChunkIndices(s))

\* getChunkCount and the response: 'uploaded' or 'already_uploaded'
uploadChunkRespond(p) ==
  /\ pc[p] = "uc_respond"
  /\ LET s == loc[p].sid
         l == [loc[p] EXCEPT !.uploaded = getChunkCount(s)]
     IN Finish(p, l, IF l.alreadyExists THEN "already_uploaded" ELSE "uploaded", "none")
  /\ UNCHANGED <<shared, budget, hOverlap>>

\* ------------------------------------- GET /api/upload/status/:uploadId
RECURSIVE MissingFrom(_, _, _)
MissingFrom(i, total, uploadedSet) ==
  IF i >= total THEN <<>>
  ELSE IF i \notin uploadedSet
       THEN <<i>> \o MissingFrom(i + 1, total, uploadedSet)
       ELSE MissingFrom(i + 1, total, uploadedSet)

\* ChunkService.getMissingChunks, given the indices it read
getMissingChunks(uploadedIndices, total) == MissingFrom(0, total, uploadedIndices)

\* UploadController.getUploadStatus: the request arrives
getUploadStatus(p) ==
  /\ CanStart(p)
  /\ \E s \in Issued \cup {UnknownId} :
       /\ pc' = [pc EXCEPT ![p] = "gs_cache"]
       /\ loc' = [loc EXCEPT ![p] = [NoLoc EXCEPT !.op = "status", !.sid = s]]
  /\ budget' = budget - 1
  /\ UNCHANGED <<shared, hOverlap>>

\* uploadedChunks = await chunkService.getChunkCount(uploadId)
getUploadStatusCount(p) ==
  /\ pc[p] = "st_count"
  /\ loc' = [loc EXCEPT ![p].uploaded = getChunkCount(loc[p].sid)]
  /\ pc' = [pc EXCEPT ![p] = "st_missing"]
  /\ UNCHANGED <<shared, budget, hOverlap>>

\* missingChunks = await chunkService.getMissingChunks(...), and the report,
\* built with session.createdAt.toISOString() and session.expiresAt.toISOString():
\* a TypeError when the session came from the cache and they are strings
getUploadStatusMissing(p) ==
  /\ pc[p] = "st_missing"
  /\ LET s == loc[p].sid
         l == [loc[p] EXCEPT
                 !.missing = getMissingChunks(getChunkIndices(s), totalChunks(s))]
     IN IF loc[p].cached
        THEN Finish(p, [loc[p] EXCEPT !.uploaded = 0], "error", "INTERNAL_ERROR")
        ELSE Finish(p, l, "status", "none")
  /\ UNCHANGED <<shared, budget, hOverlap>>

\* ---------------------------------------- POST /api/upload/complete
FinalPath == "final"

\* UploadController.completeUpload: the request arrives
completeUpload(p) ==
  /\ CanStart(p)
  /\ \E s \in Issued \cup {UnknownId} :
       /\ pc' = [pc EXCEPT ![p] = "gs_cache"]
       /\ loc' = [loc EXCEPT ![p] = [NoLoc EXCEPT !.op = "complete", !.sid = s]]
  /\ budget' = budget - 1
  /\ UNCHANGED <<shared, hOverlap>>

\* FailAndThrow resetting the session to INIT instead of failing it.
FailAndThrowResetInit(l, code) ==
  [l EXCEPT !.newStatus = "INIT", !.usRet = "throw", !.code = code]

\* catch (error) { await failUpload(uploadId); throw error; }
FailAndThrow(l, code) ==
  [l EXCEPT !.newStatus = "FAILED", !.usRet = "throw", !.code = code]

\* ChunkService.reassembleChunks: chunkIndices = await getChunkIndices(uploadId)
reassembleChunks(p) ==
  /\ pc[p] = "ra_indices"
  /\ LET s == loc[p].sid
         chunkIndices == getChunkIndices(s)
     IN /\ loc' = [loc EXCEPT ![p].indices = chunkIndices]
        /\ pc' = [pc EXCEPT ![p] =
                    IF Cardinality(chunkIndices) # totalChunks(s)
                    THEN "ra_missing" ELSE "ra_open"]
  /\ UNCHANGED <<shared, budget, hOverlap>>

\* missing = await getMissingChunks(...); throw MISSING_CHUNKS {missingChunks}
reassembleMissing(p) ==
  /\ pc[p] = "ra_missing"
  /\ LET s == loc[p].sid
         missing == getMissingChunks(getChunkIndices(s), totalChunks(s))
     IN loc' = [loc EXCEPT ![p] =
                  FailAndThrow([loc[p] EXCEPT !.missing = missing], "MISSING_CHUNKS")]
  /\ pc' = [pc EXCEPT ![p] = "us_db"]
  /\ UNCHANGED <<shared, budget, hOverlap>>

\* fs.ensureDir(finalDir); fs.createWriteStream(finalFilePath): flags 'w' truncate
reassembleOpen(p) ==
  /\ pc[p] = "ra_open"
  /\ finalFiles' = [finalFiles EXCEPT ![loc[p].sid] = <<>>]
  /\ loc' = [loc EXCEPT ![p].i = 0, ![p].pos = 0]
  /\ pc' = [pc EXCEPT ![p] = "ra_meta"]
  /\ UNCHANGED <<uploads, redisSession, redisChunk, tempDir, tempFiles,
                 expired, budget, hOverlap>>

\* metadata = await getChunkMetadata(uploadId, i)
reassembleMetadata(p) ==
  /\ pc[p] = "ra_meta"
  /\ LET metadata == redisChunk[loc[p].sid][loc[p].i]
     IN IF metadata = NoRec
        THEN /\ loc' = [loc EXCEPT ![p] = FailAndThrow(loc[p], "NOT_FOUND")]
             /\ pc' = [pc EXCEPT ![p] = "us_db"]
        ELSE /\ loc' = [loc EXCEPT ![p].meta = metadata]
             /\ pc' = [pc EXCEPT ![p] = "ra_read"]
  /\ UNCHANGED <<shared, budget, hOverlap>>

\* A stream writes at its own file position; bytes it skipped read as 0.
WriteAt(file, pos, bytes) ==
  LET n == IF Len(file) > pos + Len(bytes) THEN Len(file) ELSE pos + Len(bytes)
  IN [k \in 1..n |->
        IF k > pos /\ k <= pos + Len(bytes) THEN bytes[k - pos]
        ELSE IF k <= Len(file) THEN file[k] ELSE 0]

\* chunkData = await fs.readFile(metadata.path); writeStream.write(chunkData);
\* after the last chunk writeStream.end() and the 'finish' event, which touch
\* nothing another request reads
reassembleRead(p) ==
  /\ pc[p] = "ra_read"
  /\ LET s == loc[p].sid
         chunkData == tempFiles[s][loc[p].i]
     IN IF chunkData = NoFile
        THEN /\ loc' = [loc EXCEPT ![p] = FailAndThrow(loc[p], "INTERNAL_ERROR")]
             /\ pc' = [pc EXCEPT ![p] = "us_db"]
             /\ finalFiles' = finalFiles
        ELSE /\ finalFiles' = [finalFiles EXCEPT ![s] = WriteAt(@, loc[p].pos, chunkData)]
             /\ loc' = [loc EXCEPT ![p].i = @ + 1, ![p].pos = @ + Len(chunkData)]
             /\ pc' = [pc EXCEPT ![p] =
                         IF loc[p].i + 1 < totalChunks(s) THEN "ra_meta" ELSE "co_validate"]
  /\ UNCHANGED <<uploads, redisSession, redisChunk, tempDir, tempFiles,
                 expired, budget, hOverlap>>

\* ValidationService.validateChecksum
validateChecksum(bytes, expectedChecksum) ==
  expectedChecksum = NoChecksum \/ calculateChecksum(bytes) = expectedChecksum

\* validationService.validateFile(...): failUpload when invalid, else completeUpload
completeUploadValidate(p) ==
  /\ pc[p] = "co_validate"
  /\ LET s == loc[p].sid
     IN loc' = [loc EXCEPT ![p] =
          IF validateChecksum(finalFiles[s], uploads[s].checksum)
          THEN [loc[p] EXCEPT !.newStatus = "COMPLETED", !.filePath = FinalPath,
                              !.usRet = "co_ai"]
          ELSE FailAndThrow(loc[p], "VALIDATION_ERROR")]
  /\ pc' = [pc EXCEPT ![p] = "us_db"]
  /\ UNCHANGED <<shared, budget, hOverlap>>

\* completeUploadRespond with the error of the AI pipeline thrown on to the
\* controller's catch block instead of being turned into status 'failed'.
completeUploadRespondHookThrows(p) ==
  /\ pc[p] = "co_ai"
  /\ \E ai \in {"initiated", "failed"} :
       IF ai = "failed"
       THEN Finish(p, [loc[p] EXCEPT !.aiPipeline = ai], "error", "INTERNAL_ERROR")
       ELSE /\ loc' = [loc EXCEPT ![p].result = "completed",
                                  ![p].filePath = FinalPath,
                                  ![p].aiPipeline = ai]
            /\ pc' = [pc EXCEPT ![p] = "cl_keys"]
  /\ UNCHANGED <<shared, budget, hOverlap>>

\* aiPipelineResult = await aiIntegrationService.processUpload(...): its
\* try/catch turns any error of the pipeline into { status: 'failed' };
\* cleanupChunks is started (not awaited) and the response 'completed' is
\* sent with aiPipeline.status
completeUploadRespond(p) ==
  /\ pc[p] = "co_ai"
  /\ \E ai \in {"initiated", "failed"} :
       loc' = [loc EXCEPT ![p].result = "completed", ![p].filePath = FinalPath,
                          ![p].aiPipeline = ai]
  /\ pc' = [pc EXCEPT ![p] = "cl_keys"]
  /\ UNCHANGED <<shared, budget, hOverlap>>

\* ------------------------------------------- ChunkService.cleanupChunks
\* Where cleanupChunks returns to: the sweep's updateUploadStatus(FAILED), or
\* nowhere (completeUpload does not await it).
AfterCleanup(l) ==
  IF l.op = "sweep"
  THEN [pc |-> "us_db", loc |-> [l EXCEPT !.newStatus = "FAILED", !.usRet = "sweep"]]
  ELSE [pc |-> "done", loc |-> Response(l)]

\* keys = await redis.keys(pattern)   (the getChunkIndices before it reads the
\* same keys for the S3 branch and the log line only)
cleanupChunks(p) ==
  /\ pc[p] = "cl_keys"
  /\ LET keys == getChunkIndices(loc[p].sid)
     IN /\ loc' = [loc EXCEPT ![p].indices = keys]
        /\ pc' = [pc EXCEPT ![p] = IF keys # {} THEN "cl_del" ELSE "cl_remove"]
  /\ UNCHANGED <<shared, budget, hOverlap>>

\* await redis.del(...keys)
cleanupChunksDel(p) ==
  /\ pc[p] = "cl_del"
  /\ redisChunk' = [redisChunk EXCEPT ![loc[p].sid] =
                      [i \in Indices |-> IF i \in loc[p].indices THEN NoRec ELSE @[i]]]
  /\ pc' = [pc EXCEPT ![p] = "cl_remove"]
  /\ UNCHANGED <<uploads, redisSession, tempDir, tempFiles, finalFiles,
                 expired, loc, budget, hOverlap>>

\* cleanupChunksRemove without the pathExists test, with a remove that
\* rejects when the directory is not there.
cleanupChunksRemoveNoExistsTest(p) ==
  /\ pc[p] = "cl_remove"
  /\ LET s == loc[p].sid
     IN IF tempDir[s]
        THEN /\ tempDir' = [tempDir EXCEPT ![s] = FALSE]
             /\ tempFiles' = [tempFiles EXCEPT ![s] = [i \in Indices |-> NoFile]]
             /\ LET n == AfterCleanup(loc[p])
                IN /\ pc' = [pc EXCEPT ![p] = n.pc]
                   /\ loc' = [loc EXCEPT ![p] = n.loc]
        ELSE /\ UNCHANGED <<tempDir, tempFiles>>
             /\ Finish(p, loc[p], "error", "INTERNAL_ERROR")
  /\ UNCHANGED <<uploads, redisSession, redisChunk, finalFiles,
                 expired, budget, hOverlap>>

\* if (await fs.pathExists(tempDir)) await fs.remove(tempDir)
cleanupChunksRemove(p) ==
  /\ pc[p] = "cl_remove"
  /\ LET s == loc[p].sid
     IN /\ tempDir' = [tempDir EXCEPT ![s] = FALSE]
        /\ tempFiles' = [tempFiles EXCEPT ![s] = [i \in Indices |-> NoFile]]
  /\ LET n == AfterCleanup(loc[p])
     IN /\ pc' = [pc EXCEPT ![p] = n.pc]
        /\ loc' = [loc EXCEPT ![p] = n.loc]
  /\ UNCHANGED <<uploads, redisSession, redisChunk, finalFiles,
                 expired, budget, hOverlap>>

\* ------------------------------------ UploadService.cleanupExpiredUploads
\* SELECT upload_id FROM uploads WHERE expires_at < NOW()
\*   AND status NOT IN ('COMPLETED', 'FAILED')
ExpiredRows ==
  { s \in Sessions : /\ uploads[s].status \notin {"NONE", "COMPLETED", "FAILED"}
                     /\ expired[s] }

cleanupExpiredUploads(p) ==
  /\ CanStart(p)
  /\ LET n == SweepContinue([NoLoc EXCEPT !.op = "sweep", !.rows = ExpiredRows])
     IN /\ pc' = [pc EXCEPT ![p] = n.pc]
        /\ loc' = [loc EXCEPT ![p] = n.loc]
  /\ budget' = budget - 1
  /\ UNCHANGED <<shared, hOverlap>>

\* ------------------------------------------------------------ time
\* The clock passes expires_at of session s.
Expire(s) ==
  /\ uploads[s].status # "NONE"
  /\ ~expired[s]
  /\ expired' = [expired EXCEPT ![s] = TRUE]
  /\ UNCHANGED <<uploads, redisSession, redisChunk, tempDir, tempFiles, finalFiles,
                 pc, loc, budget, hOverlap>>

\* The TTL of chunk:{s}:{i} (expiryHours from its setex) runs out.
chunkKeyTtl(s, i) ==
  /\ expired[s]
  /\ redisChunk[s][i] # NoRec
  /\ redisChunk' = [redisChunk EXCEPT ![s][i] = NoRec]
  /\ UNCHANGED <<uploads, redisSession, tempDir, tempFiles, finalFiles, expired,
                 pc, loc, budget, hOverlap>>

\* The TTL of upload:{s} (expiryHours from its setex) runs out.
sessionKeyTtl(s) ==
  /\ expired[s]
  /\ redisSession[s] # "NONE"
  /\ redisSession' = [redisSession EXCEPT ![s] = "NONE"]
  /\ UNCHANGED <<uploads, redisChunk, tempDir, tempFiles, finalFiles, expired,
                 pc, loc, budget, hOverlap>>

\* ------------------------------------------------------ specification
\* The steps of the request handlers, whatever budget arrive.
Handlers(p) ==
  \/ initializeUpload(p)
  \/ initializeInsert(p)
  \/ initializeCache(p)
  \/ getUploadSessionCache(p)
  \/ getUploadSessionDb(p)
  \/ getUploadSessionSetex(p)
  \/ updateUploadStatus(p)
  \/ updateUploadStatusDel(p)
  \/ storeChunk(p)
  \/ storeChunkEnsureDir(p)
  \/ storeChunkWriteFile(p)
  \/ storeChunkSetex(p)
  \/ uploadChunkRespond(p)
  \/ getUploadStatus(p)
  \/ getUploadStatusCount(p)
  \/ getUploadStatusMissing(p)
  \/ completeUpload(p)
  \/ reassembleChunks(p)
  \/ reassembleMissing(p)
  \/ reassembleOpen(p)
  \/ reassembleMetadata(p)
  \/ reassembleRead(p)
  \/ completeUploadValidate(p)
  \/ completeUploadRespond(p)
  \/ cleanupChunks(p)
  \/ cleanupChunksDel(p)
  \/ cleanupChunksRemove(p)

\* Clients upload the chunks of their files; no session outlives its expiry.
Next ==
  \E p \in Procs : Handlers(p) \/ uploadChunk(p)

Spec == Init /\ [][Next]_vars

\* Clients upload arbitrary payloads.
NextAny ==
  \E p \in Procs : Handlers(p) \/ uploadAnyChunk(p)

SpecAny == InitAny /\ [][NextAny]_vars

\* Time passes: sessions expire, Redis keys time out, the expiry sweep runs.
NextExpiry ==
  \/ \E p \in Procs : Handlers(p) \/ uploadChunk(p) \/ cleanupExpiredUploads(p)
  \/ \E s \in Sessions : Expire(s)
  \/ \E s \in Sessions : \E i \in Indices : chunkKeyTtl(s, i)
  \/ \E s \in Sessions : sessionKeyTtl(s)

SpecExpiry == InitExpiry /\ [][NextExpiry]_vars

\* Clients declare files of every size and send chunks under every index.
NextSizes ==
  \E p \in Procs : Handlers(p) \/ initializeAnySize(p) \/ uploadAnyIndex(p)

SpecSizes == InitSizes /\ [][NextSizes]_vars

\* Clients only create sessions and ask for their status; time passes.
NextStatus ==
  \/ \E p \in Procs :
        \/ initializeAnySize(p)
        \/ initializeInsert(p)
        \/ initializeCache(p)
        \/ getUploadStatus(p)
        \/ getUploadSessionCache(p)
        \/ getUploadSessionDb(p)
        \/ getUploadSessionSetex(p)
        \/ getUploadStatusCount(p)
        \/ getUploadStatusMissing(p)
  \/ \E s \in Sessions : Expire(s)
  \/ \E s \in Sessions : sessionKeyTtl(s)

SpecStatus == InitStatus /\ [][NextStatus]_vars

TypeOK ==
  /\ \A s \in Sessions : uploads[s].status \in StatusSet \cup {"NONE"}
  /\ \A s \in Sessions : redisSession[s] \in StatusSet \cup {"NONE"}
  /\ budget \in 0..MaxRequests

\* ------------------------- ChunkService.getChunkIndices / getMissingChunks
\* as functions of the keys redis.keys returns
TestUpload == "test-upload"

\* `${chunkIndex}`: the decimal digits of a number
RECURSIVE Digits(_)
Digits(n) == IF n < 10 THEN <<n>> ELSE Digits(n \div 10) \o <<n % 10>>

\* config/redis getChunkKey: `chunk:${uploadId}:${chunkIndex}`
getChunkKey(uploadId, chunkIndex) == <<"chunk", uploadId, Digits(chunkIndex)>>

\* parseInt(match[1], 10)
RECURSIVE parseInt(_)
parseInt(ds) ==
  IF ds = <<>> THEN 0
  ELSE parseInt(SubSeq(ds, 1, Len(ds) - 1)) * 10 + ds[Len(ds)]

\* key.match(/chunk:.*:(\d+)$/): the digits after the last colon
MatchIndex(key) == parseInt(key[Len(key)])

RECURSIVE InsertNumeric(_, _)
InsertNumeric(x, sorted) ==
  IF sorted = <<>> THEN <<x>>
  ELSE IF x - Head(sorted) < 0 THEN <<x>> \o sorted
       ELSE <<Head(sorted)>> \o InsertNumeric(x, Tail(sorted))

\* .sort((a, b) => a - b)
RECURSIVE SortNumeric(_)
SortNumeric(seq) ==
  IF seq = <<>> THEN <<>>
  ELSE InsertNumeric(Head(seq), SortNumeric(Tail(seq)))

\* Order of the decimal strings of two numbers, code unit by code unit.
RECURSIVE LexLess(_, _)
LexLess(a, b) ==
  IF a = <<>> THEN b # <<>>
  ELSE IF b = <<>> THEN FALSE
  ELSE IF Head(a) # Head(b) THEN Head(a) < Head(b)
  ELSE LexLess(Tail(a), Tail(b))

RECURSIVE InsertLex(_, _)
InsertLex(x, sorted) ==
  IF sorted = <<>> THEN <<x>>
  ELSE IF LexLess(Digits(x), Digits(Head(sorted))) THEN <<x>> \o sorted
       ELSE <<Head(sorted)>> \o InsertLex(x, Tail(sorted))

\* .sort() without a compare function: by string value
RECURSIVE SortDefault(_)
SortDefault(seq) ==
  IF seq = <<>> THEN <<>>
  ELSE InsertLex(Head(seq), SortDefault(Tail(seq)))

\* getChunkIndicesList with sort() called without its compare function.
getChunkIndicesListDefaultSort(keys) ==
  SortDefault([k \in DOMAIN keys |-> MatchIndex(keys[k])])

\* ChunkService.getChunkIndices on the keys it got: map, filter, sort
getChunkIndicesList(keys) ==
  SortNumeric([k \in DOMAIN keys |-> MatchIndex(keys[k])])

Range(seq) == { seq[k] : k \in DOMAIN seq }

\* Lists of up to MaxKeys different indices in any order.
IndexLists ==
  UNION { { f \in [1..n -> 0..MaxKeyIndex] :
              \A a, b \in 1..n : a # b => f[a] # f[b] } : n \in 0..MaxKeys }

FirstProc == CHOOSE p \in Procs : \A q \in Procs : p <= q

\* redis.keys has returned the keys of some recorded indices in some order,
\* and the caller has some totalChunks.
InitIndices ==
  /\ uploads = [s \in Sessions |-> NoRow]
  /\ redisSession = [s \in Sessions |-> "NONE"]
  /\ redisChunk = [s \in Sessions |-> [i \in Indices |-> NoRec]]
  /\ tempDir = [s \in Sessions |-> FALSE]
  /\ tempFiles = [s \in Sessions |-> [i \in Indices |-> NoFile]]
  /\ finalFiles = [s \in Sessions |-> NoFile]
  /\ expired = [s \in Sessions |-> FALSE]
  /\ hOverlap = {}
  /\ budget = 0
  /\ pc = [p \in Procs |-> IF p = FirstProc THEN "gi_keys" ELSE "idle"]
  /\ \E f \in IndexLists : \E total \in 0..(MaxKeyIndex + 1) :
       loc = [p \in Procs |->
                IF p = FirstProc
                THEN [NoLoc EXCEPT
                        !.op = "indices", !.size = total,
                        !.keys = [k \in DOMAIN f |-> getChunkKey(TestUpload, f[k])]]
                ELSE NoLoc]

\* indices = await getChunkIndices(uploadId)
getChunkIndicesCall(p) ==
  /\ pc[p] = "gi_keys"
  /\ loc' = [loc EXCEPT ![p].indexList = getChunkIndicesList(loc[p].keys)]
  /\ pc' = [pc EXCEPT ![p] = "gm_keys"]
  /\ UNCHANGED <<shared, budget, hOverlap>>

\* missing = await getMissingChunks(uploadId, totalChunks): getChunkIndices
\* again, new Set(uploadedIndices), the loop over 0..totalChunks-1
getMissingChunksCall(p) ==
  /\ pc[p] = "gm_keys"
  /\ loc' = [loc EXCEPT
               ![p].missing = getMissingChunks(Range(getChunkIndicesList(loc[p].keys)),
                                               loc[p].size),
               ![p].result = "indices"]
  /\ pc' = [pc EXCEPT ![p] = "done"]
  /\ UNCHANGED <<shared, budget, hOverlap>>

NextIndices == \E p \in Procs : getChunkIndicesCall(p) \/ getMissingChunksCall(p)

SpecIndices == InitIndices /\ [][NextIndices]_vars

\* ------------------------------------------------- PostgreSQL / Redis errors
\* Where an error thrown inside updateUploadStatus ends up: in the catch of
\* the sweep's loop (logged, next row, cleaned not incremented), or in the
\* catch of the controller method and from there in the error handler (500).
Thrown(l) ==
  IF l.op = "sweep"
  THEN SweepContinue(l)
  ELSE [pc |-> "done",
        loc |-> Response([l EXCEPT !.result = "error", !.code = "INTERNAL_ERROR"])]

\* redis.setex in initializeUpload rejects after the INSERT was committed:
\* nothing catches it, the request is answered 500 and the row stays
initializeCacheFails(p) ==
  /\ pc[p] = "in_cache"
  /\ Finish(p, loc[p], "error", "INTERNAL_ERROR")
  /\ UNCHANGED <<shared, budget, hOverlap>>

\* withTransaction in updateUploadStatus rejects: ROLLBACK, the row is not
\* changed, the error is thrown on
updateUploadStatusFails(p) ==
  /\ pc[p] = "us_db"
  /\ LET n == Thrown([loc[p] EXCEPT !.filePath = NoPath])
     IN /\ pc' = [pc EXCEPT ![p] = n.pc]
        /\ loc' = [loc EXCEPT ![p] = n.loc]
  /\ UNCHANGED <<shared, budget, hOverlap>>

\* redis.del in updateUploadStatus rejects after the UPDATE was committed
updateUploadStatusDelFails(p) ==
  /\ pc[p] = "us_del"
  /\ LET n == Thrown([loc[p] EXCEPT !.filePath = NoPath])
     IN /\ pc' = [pc EXCEPT ![p] = n.pc]
        /\ loc' = [loc EXCEPT ![p] = n.loc]
  /\ UNCHANGED <<shared, budget, hOverlap>>

\* redis.del(...keys) in cleanupChunks rejects: caught per row by the sweep,
\* logged by the .catch of completeUpload (whose response is not affected)
cleanupChunksDelFails(p) ==
  /\ pc[p] = "cl_del"
  /\ LET n == IF loc[p].op = "sweep" THEN SweepContinue(loc[p])
              ELSE [pc |-> "done", loc |-> Response(loc[p])]
     IN /\ pc' = [pc EXCEPT ![p] = n.pc]
        /\ loc' = [loc EXCEPT ![p] = n.loc]
  /\ UNCHANGED <<shared, budget, hOverlap>>

Faults(p) ==
  \/ initializeCacheFails(p)
  \/ updateUploadStatusFails(p)
  \/ updateUploadStatusDelFails(p)
  \/ cleanupChunksDelFails(p)

\* The service as started by startServer: requests arrive, time passes, and
\* every request that has arrived is run on by the event loop.  Nothing in
\* the service calls cleanupExpiredUploads, so no step of it occurs.
Continue(p) ==
  \/ initializeInsert(p)
  \/ initializeCache(p)
  \/ getUploadSessionCache(p)
  \/ getUploadSessionDb(p)
  \/ getUploadSessionSetex(p)
  \/ updateUploadStatus(p)
  \/ updateUploadStatusDel(p)
  \/ storeChunk(p)
  \/ storeChunkEnsureDir(p)
  \/ storeChunkWriteFile(p)
  \/ storeChunkSetex(p)
  \/ uploadChunkRespond(p)
  \/ getUploadStatusCount(p)
  \/ getUploadStatusMissing(p)
  \/ reassembleChunks(p)
  \/ reassembleMissing(p)
  \/ reassembleOpen(p)
  \/ reassembleMetadata(p)
  \/ reassembleRead(p)
  \/ completeUploadValidate(p)
  \/ completeUploadRespond(p)
  \/ cleanupChunks(p)
  \/ cleanupChunksDel(p)
  \/ cleanupChunksRemove(p)

NextLive ==
  \/ \E p \in Procs : Handlers(p) \/ uploadChunk(p)
  \/ \E s \in Sessions : Expire(s)

SpecLive ==
  InitLive /\ [][NextLive]_vars /\ \A p \in Procs : WF_vars(Continue(p))

\* The service with a database and a cache that can fail, and the sweep
\* called from outside; a request that has arrived takes its next step
\* (which may be a failing one).
NextFaults ==
  \/ \E p \in Procs : Handlers(p) \/ uploadChunk(p) \/ Faults(p)
                       \/ cleanupExpiredUploads(p)
  \/ \E s \in Sessions : Expire(s)

SpecFaults ==
  /\ InitFaults /\ [][NextFaults]_vars
  /\ \A p \in Procs : WF_vars(Continue(p) \/ Faults(p))

\* Clients create sessions and upload chunks, nothing else.
NextCommute ==
  \E p \in Procs :
    \/ initializeUpload(p)
    \/ initializeInsert(p)
    \/ initializeCache(p)
    \/ uploadChunk(p)
    \/ getUploadSessionCache(p)
    \/ getUploadSessionDb(p)
    \/ getUploadSessionSetex(p)
    \/ storeChunk(p)
    \/ storeChunkEnsureDir(p)
    \/ storeChunkWriteFile(p)
    \/ storeChunkSetex(p)
    \/ updateUploadStatus(p)
    \/ updateUploadStatusDel(p)
    \/ uploadChunkRespond(p)

SpecCommute == InitCommute /\ [][NextCommute]_vars

\* ============================================================ claims
Done(p, op) == pc[p] = "done" /\ loc[p].op = op /\ loc[p].sid \in Sessions

SameChunk(p, q) ==
  /\ p # q
  /\ Done(p, "upload") /\ Done(q, "upload")
  /\ loc[p].sid = loc[q].sid /\ loc[p].chunkIndex = loc[q].chunkIndex

\* C1: of two store_chunk calls for the same (session, index) that ran
\* concurrently, exactly one returns 'uploaded' and the other one
\* 'already_uploaded'; here: they never both return 'uploaded'.
C1_OneWinner ==
  \A p, q \in Procs :
    (SameChunk(p, q) /\ q \in loc[p].conc /\ p \in loc[q].conc)
      => ~(loc[p].result = "uploaded" /\ loc[q].result = "uploaded")

\* C2: as long as the store_chunk calls for a chunk key run one after another
\* (no two ever overlapped), at most one of them returns 'uploaded', whatever
\* else happened to the session in between, and each reports the size of the
\* payload it stored.
C2_SequentialStoredOnce ==
  \A p, q \in Procs :
    (SameChunk(p, q) /\ <<loc[p].sid, loc[p].chunkIndex>> \notin hOverlap)
      => /\ ~(loc[p].result = "uploaded" /\ loc[q].result = "uploaded")
         /\ (loc[p].result \in {"uploaded", "already_uploaded"}
               => loc[p].size = Len(ChunkOf(Blob(uploads[loc[p].sid].fileSize),
                                            loc[p].chunkIndex)))

\* C3: a chunk record that exists is write-once: no step changes its recorded
\* size or the stored bytes while the record stays (only cleanup takes them away).
C3_WriteOnce ==
  [][\A s \in Sessions : \A i \in Indices :
       (redisChunk[s][i] # NoRec /\ redisChunk'[s][i] # NoRec)
         => /\ redisChunk'[s][i] = redisChunk[s][i]
            /\ tempFiles'[s][i] \in {tempFiles[s][i], NoFile}]_vars

\* C4: when a complete call answers 'completed' for a session whose uploads were
\* the chunks of the client's file B (in any order, with duplicates), the final
\* object is the chunks 0..totalChunks-1 concatenated in ascending order: B.
C4_RoundTrip ==
  [][\A p \in Procs :
       (pc[p] = "co_ai" /\ pc'[p] # "co_ai")
         => finalFiles'[loc[p].sid] = Blob(uploads[loc[p].sid].fileSize)]_vars

LegalEdges ==
  { <<"NONE", "INIT">>, <<"INIT", "UPLOADING">>, <<"UPLOADING", "ASSEMBLING">>,
    <<"ASSEMBLING", "COMPLETED">>, <<"INIT", "FAILED">>, <<"UPLOADING", "FAILED">>,
    <<"ASSEMBLING", "FAILED">> }

\* C5: every change of a session's durable status follows an edge of the state
\* machine INIT->UPLOADING->ASSEMBLING->COMPLETED, or leads from a non-terminal
\* status to FAILED.
C5_LegalEdgesOnly ==
  [][\A s \in Sessions :
       uploads'[s].status # uploads[s].status
         => <<uploads[s].status, uploads'[s].status>> \in LegalEdges]_vars

\* C6: COMPLETED and FAILED are absorbing: no step changes the status of a
\* session that is COMPLETED or FAILED.
C6_TerminalAbsorbing ==
  [][\A s \in Sessions :
       uploads[s].status \in {"COMPLETED", "FAILED"}
         => uploads'[s].status = uploads[s].status]_vars

\* C7: every status report satisfies uploadedChunks + |missingChunks| = totalChunks.
C7_ReportAddsUp ==
  \A p \in Procs :
    (Done(p, "status") /\ loc[p].result = "status")
      => loc[p].uploaded + Len(loc[p].missing) = totalChunks(loc[p].sid)

\* The sorted sequence of the members of a set of indices.
RECURSIVE SortedSeq(_)
SortedSeq(S) ==
  IF S = {} THEN <<>>
  ELSE LET m == CHOOSE x \in S : \A y \in S : x <= y
       IN <<m>> \o SortedSeq(S \ {m})

\* C8: a complete that is refused with MISSING_CHUNKS reports in
\* details.missingChunks exactly the sorted set of the indices that had no chunk
\* record when it refused (at least one).
C8_MissingListExact ==
  \A p \in Procs :
    (loc[p].op = "complete" /\ pc[p] \in {"us_db", "us_del"}
       /\ loc[p].code = "MISSING_CHUNKS")
      => /\ loc[p].missing
              = SortedSeq((0..(totalChunks(loc[p].sid) - 1)) \ loc[p].indices)
         /\ loc[p].missing # <<>>

\* C9: complete moves a session to ASSEMBLING only from UPLOADING; on a session
\* in INIT, ASSEMBLING, COMPLETED or FAILED it writes no status.
C9_CompleteOnlyFromUploading ==
  [][\A p \in Procs :
       (loc[p].op = "complete" /\ pc[p] = "us_db" /\ pc'[p] = "us_del"
          /\ loc[p].newStatus = "ASSEMBLING")
         => uploads[loc[p].sid].status = "UPLOADING"]_vars

AssemblyPcs == {"ra_indices", "ra_missing", "ra_open", "ra_meta", "ra_read"}

\* C10: at most one assembly of a session is in progress at any time.
C10_OneAssembly ==
  \A p, q \in Procs :
    (p # q /\ pc[p] \in AssemblyPcs /\ pc[q] \in AssemblyPcs)
      => loc[p].sid # loc[q].sid

\* C11: whenever a session created with an expected checksum has status
\* COMPLETED, the object at its final path hashes to that checksum.
C11_CompletedDigestMatches ==
  \A s \in Sessions :
    (uploads[s].status = "COMPLETED" /\ uploads[s].checksum # NoChecksum)
      => /\ finalFiles[s] # NoFile
         /\ calculateChecksum(finalFiles[s]) = uploads[s].checksum

\* C12: whenever a session has status COMPLETED, the object at its final path
\* is exactly fileSize bytes long.
C12_CompletedLength ==
  \A s \in Sessions :
    uploads[s].status = "COMPLETED"
      => /\ finalFiles[s] # NoFile
         /\ Len(finalFiles[s]) = uploads[s].fileSize

\* C13: in every state the file_path of a session row is set if and only if
\* the row's status is COMPLETED.
C13_FilePathIffCompleted ==
  \A s \in Sessions :
    uploads[s].status # "NONE"
      => (uploads[s].filePath # NoPath <=> uploads[s].status = "COMPLETED")

StorePcs == {"sc_get", "sc_dir", "sc_write", "sc_setex"}

\* C14: a chunk upload whose handler loaded the session as COMPLETED or FAILED
\* is refused: it never gets to store_chunk (no record, no bytes written).
C14_TerminalStoreRefused ==
  \A p \in Procs :
    (loc[p].op = "upload" /\ pc[p] \in StorePcs)
      => loc[p].session \notin {"COMPLETED", "FAILED"}

\* C15: a chunk upload that holds its session at a moment past the session's
\* expires_at is refused there: it does not go on to store_chunk.
C15_ExpiredStoreRefused ==
  [][\A p \in Procs :
       (loc[p].op = "upload" /\ pc[p] \in {"gs_cache", "gs_setex"}
          /\ pc'[p] = "sc_get")
         => ~expired[loc[p].sid]]_vars

C17_RecordHasRequiredSize ==
  \A s \in Sessions : \A i \in Indices :
    (redisChunk[s][i] # NoRec /\ i < totalChunks(s))
      => redisChunk[s][i] =
           (IF i = totalChunks(s) - 1
            THEN uploads[s].fileSize - (totalChunks(s) - 1) * ChunkSize
            ELSE ChunkSize)

\* The status report the claim expects for a session of n chunks: 0, 1, ..., n-1.
AllMissing(n) == [k \in 1..n |-> k - 1]

\* C18: a status query on a session that was initialized and has had no chunk
\* uploaded answers with a report: status INIT, uploadedChunks = 0 and
\* missingChunks = [0, 1, ..., totalChunks-1].
C18_StatusAfterInit ==
  [][\A p \in Procs :
       (loc[p].op = "status" /\ loc[p].sid \in Sessions
          /\ pc[p] # "done" /\ pc'[p] = "done")
         => /\ loc'[p].result = "status"
            /\ loc[p].session = "INIT"
            /\ loc'[p].uploaded = 0
            /\ loc'[p].missing = AllMissing(totalChunks(loc[p].sid))]_vars

C20_DigestMismatchFails ==
  [][\A p \in Procs :
       (pc[p] = "co_validate" /\ pc'[p] # "co_validate"
          /\ uploads[loc[p].sid].checksum # NoChecksum
          /\ calculateChecksum(finalFiles[loc[p].sid]) # uploads[loc[p].sid].checksum)
         => /\ loc'[p].code = "DIGEST_MISMATCH"
            /\ loc'[p].newStatus = "FAILED"]_vars

\* C21: a complete that found its session UPLOADING and is refused with
\* MISSING_CHUNKS leaves the session in UPLOADING when it answers (the move
\* to ASSEMBLING is rolled back).
C21_MissingChunksRollsBack ==
  [][\A p \in Procs :
       (loc[p].op = "complete" /\ loc[p].code = "MISSING_CHUNKS"
          /\ loc[p].session = "UPLOADING"
          /\ pc[p] # "done" /\ pc'[p] = "done")
         => uploads'[loc[p].sid].status = "UPLOADING"]_vars

\* C24: a chunk upload that found its chunk already present writes nothing
\* afterwards; in particular it never runs updateUploadStatus.
C24_AlreadyPresentWritesNothing ==
  \A p \in Procs :
    (loc[p].op = "upload" /\ loc[p].alreadyExists)
      => pc[p] \notin {"us_db", "us_del"}

\* C26: every chunk record in the index has its bytes in the temporary store.
C26_RecordHasBytes ==
  \A s \in Sessions : \A i \in Indices :
    redisChunk[s][i] # NoRec => tempFiles[s][i] # NoFile

\* C27: outside the window of a status write (row updated, cache entry not
\* yet deleted) the cached session of s, if any, shows the status of the row:
\* no lookup can return a status from before a transition that has returned.
C27_CacheCoherent ==
  \A s \in Sessions :
    (redisSession[s] # "NONE"
       /\ \A p \in Procs : ~(pc[p] = "us_del" /\ loc[p].sid = s))
      => redisSession[s] = uploads[s].status

\* C28: the status write of a chunk upload takes the session from INIT to
\* UPLOADING or leaves it UPLOADING; a chunk upload never moves a session
\* from or to any other status.
C28_UploadOnlyInitToUploading ==
  [][\A p \in Procs :
       (loc[p].op = "upload" /\ pc[p] = "us_db" /\ pc'[p] = "us_del")
         => /\ uploads[loc[p].sid].status \in {"INIT", "UPLOADING"}
            /\ uploads'[loc[p].sid].status = "UPLOADING"]_vars

\* C29: within complete, chunks are read only while the session is ASSEMBLING,
\* COMPLETED is written only by a call whose assembly and validation
\* succeeded, and the cleanup started by complete removes chunk records and
\* chunk files only while the session is COMPLETED.
C29_CompleteStepsOrdered ==
  [][\A p \in Procs :
       (loc[p].op = "complete" /\ pc'[p] # pc[p])
         => /\ pc[p] \in {"ra_meta", "ra_read"}
                 => uploads[loc[p].sid].status = "ASSEMBLING"
            /\ (pc[p] = "us_db" /\ loc[p].newStatus = "COMPLETED")
                 => loc[p].usRet = "co_ai"
            /\ pc[p] \in {"cl_keys", "cl_del", "cl_remove"}
                 => uploads[loc[p].sid].status = "COMPLETED"]_vars

\* C30: when assembly fails after it opened the final file, no object is left
\* at the final path, and assembly itself wrote no status.
C30_FailedAssemblyLeavesNoObject ==
  [][\A p \in Procs :
       (loc[p].op = "complete" /\ pc[p] \in {"ra_meta", "ra_read"}
          /\ pc'[p] = "us_db" /\ loc'[p].newStatus = "FAILED")
         => /\ finalFiles'[loc[p].sid] = NoFile
            /\ uploads' = uploads]_vars

\* C23: a status request, a chunk upload or a complete on a session id that
\* was never created changes no stored state in any of its steps and is
\* answered with NOT_FOUND.
C23_UnknownSessionNotFound ==
  [][\A p \in Procs :
       (loc'[p].sid = UnknownId
          /\ loc'[p].op \in {"status", "upload", "complete"}
          /\ pc'[p] # pc[p])
         => /\ shared' = shared
            /\ pc'[p] = "done"
                 => loc'[p].result = "error" /\ loc'[p].code = "NOT_FOUND"]_vars

\* Two requests of different kinds on the unknown id have been answered
\* NOT_FOUND while a session with a stored chunk exists.
C23_Witness ==
  /\ \E p, q \in Procs :
       /\ pc[p] = "done" /\ pc[q] = "done"
       /\ loc[p].sid = UnknownId /\ loc[q].sid = UnknownId
       /\ loc[p].op = "upload" /\ loc[q].op \in {"status", "complete"}
       /\ loc[p].code = "NOT_FOUND" /\ loc[q].code = "NOT_FOUND"
  /\ \E s \in Sessions : \E i \in Indices : redisChunk[s][i] # NoRec

\* C22: the expiry sweep acts only on sessions that are expired and not
\* terminal: each step in which it removes chunk records or chunk files of a
\* session, or writes its status, finds the session expired and neither
\* COMPLETED nor FAILED; it writes FAILED, and only once no chunk record and
\* no chunk bytes of the session are left.
C22_SweepExactlyExpiredNonTerminal ==
  [][\A p \in Procs :
       (loc[p].op = "sweep" /\ pc[p] \in {"cl_del", "cl_remove", "us_db"}
          /\ pc'[p] # pc[p])
         => LET s == loc[p].sid
            IN /\ expired[s]
               /\ uploads[s].status \notin {"COMPLETED", "FAILED"}
               /\ \A t \in Sessions \ {s} :
                    /\ uploads'[t] = uploads[t]
                    /\ redisChunk'[t] = redisChunk[t]
                    /\ tempFiles'[t] = tempFiles[t]
               /\ pc[p] = "us_db"
                    => /\ uploads'[s].status = "FAILED"
                       /\ \A i \in Indices :
                            redisChunk[s][i] = NoRec /\ tempFiles[s][i] = NoFile]_vars

C31_HookNeverFailsUpload ==
  [][\A p \in Procs :
       /\ (loc[p].op = "complete" /\ pc[p] = "us_db"
             /\ loc[p].newStatus = "COMPLETED" /\ pc'[p] # pc[p])
            => /\ uploads'[loc[p].sid].status = "COMPLETED"
               /\ uploads'[loc[p].sid].filePath = FinalPath
       /\ (pc[p] = "co_ai" /\ pc'[p] # pc[p])
            => /\ shared' = shared
               /\ loc'[p].result = "completed"
               /\ loc'[p].filePath = FinalPath
               /\ loc'[p].aiPipeline \in {"initiated", "failed"}]_vars

\* A complete call whose AI hook failed has answered 'completed', and the
\* session is COMPLETED with its final path and the assembled file.
C31_Witness ==
  \E p \in Procs :
    /\ Done(p, "complete") /\ loc[p].result = "completed"
    /\ loc[p].aiPipeline = "failed"
    /\ uploads[loc[p].sid].status = "COMPLETED"
    /\ uploads[loc[p].sid].filePath = FinalPath
    /\ finalFiles[loc[p].sid] = Blob(uploads[loc[p].sid].fileSize)

CleanupPcs == {"cl_keys", "cl_del", "cl_remove"}

\* Session s has no chunk record, no chunk bytes and no temp directory.
NoChunksLeft(s) ==
  /\ ~tempDir[s]
  /\ \A i \in Indices : redisChunk[s][i] = NoRec /\ tempFiles[s][i] = NoFile

C34_ExpiredEventuallyFailed ==
  \A s \in Sessions :
    (expired[s] /\ uploads[s].status \in {"INIT", "UPLOADING", "ASSEMBLING"})
      ~> (uploads[s].status = "FAILED" /\ NoChunksLeft(s))

\* C33: an error on one session does not abort the sweep, and the count the
\* sweep returns is the number of sessions it set to FAILED: each step of a
\* sweep that ends its work on one session goes on with the remaining rows
\* it selected (or returns when there are none), and when that session's
\* FAILED write was committed the count goes up by one.
C33_SweepErrorIsolated ==
  [][\A p \in Procs :
       (loc[p].op = "sweep" /\ pc[p] \in CleanupPcs \cup {"us_db", "us_del"}
          /\ (pc'[p] \in {"done", "cl_keys"} /\ pc[p] # "cl_keys"))
         => /\ loc'[p].op = "sweep"
            /\ IF loc[p].rows = {}
               THEN pc'[p] = "done"
               ELSE /\ pc'[p] = "cl_keys"
                    /\ loc'[p].rows \cup {loc'[p].sid} = loc[p].rows
            /\ loc'[p].cleaned =
                 IF pc[p] = "us_del" THEN loc[p].cleaned + 1 ELSE loc[p].cleaned]_vars

\* C35: a session never stays in ASSEMBLING for ever: whenever its status is
\* ASSEMBLING, it later is something else (COMPLETED, FAILED, or a status
\* written by a later request), whichever step of complete fails.
C35_AssemblingEnds ==
  \A s \in Sessions :
    (uploads[s].status = "ASSEMBLING") ~> (uploads[s].status # "ASSEMBLING")

\* C40: the session cache is best-effort: a request whose row write was
\* committed is not answered with an error because the cache write
\* (initialize) or the cache invalidation (status transition) failed.
C40_CacheBestEffort ==
  [][\A p \in Procs :
       /\ (pc[p] = "in_cache" /\ pc'[p] # pc[p])
            => loc'[p].result # "error"
       /\ (pc[p] = "us_del" /\ loc[p].op # "sweep" /\ loc[p].usRet # "throw"
             /\ pc'[p] # pc[p])
            => loc'[p].result # "error"]_vars

\* C36: chunk uploads commute.  Once all chunk uploads that were sent are
\* answered, whatever their order and interleaving, the state is a function
\* of the set of accepted indices alone: every upload with a valid index was
\* accepted and its index is recorded, each recorded index has the record
\* and the bytes of its chunk, and the status of the row is UPLOADING as
\* soon as one index is recorded (INIT otherwise).
C36_UploadsCommute ==
  (\A p \in Procs : Free(p))
    => \A s \in Sessions :
         uploads[s].status # "NONE"
           => /\ \A p \in Procs :
                   (Done(p, "upload") /\ loc[p].sid = s
                      /\ loc[p].chunkIndex < totalChunks(s))
                     => /\ loc[p].result \in {"uploaded", "already_uploaded"}
                        /\ loc[p].chunkIndex \in getChunkIndices(s)
              /\ \A i \in getChunkIndices(s) :
                   /\ i < totalChunks(s)
                   /\ tempFiles[s][i] = ChunkOf(Blob(uploads[s].fileSize), i)
                   /\ redisChunk[s][i] = Len(tempFiles[s][i])
              /\ uploads[s].status =
                   IF getChunkIndices(s) = {} THEN "INIT" ELSE "UPLOADING"

\* Two uploads with different indices have both been accepted as new and
\* the session is UPLOADING with exactly their two indices recorded.
C36_Witness ==
  \E p, q \in Procs :
    /\ Done(p, "upload") /\ Done(q, "upload")
    /\ loc[p].sid = loc[q].sid
    /\ loc[p].chunkIndex = 0 /\ loc[q].chunkIndex = 1
    /\ loc[p].result = "uploaded" /\ loc[q].result = "uploaded"
    /\ getChunkIndices(loc[p].sid) = {0, 1}
    /\ uploads[loc[p].sid].status = "UPLOADING"

\* C37: every session that initialize created has a declared size in
\* 1..MaxFileSize and total_chunks = ceil(size / ChunkSize): the one k >= 1
\* with (k - 1) * ChunkSize < size <= k * ChunkSize.  So size 1 gives 1 and
\* an exact multiple k * ChunkSize gives k.
C37_TotalChunksIsCeil ==
  \A s \in Sessions :
    uploads[s].status # "NONE"
      => LET size == uploads[s].fileSize
             k == uploads[s].totalChunks
         IN /\ size \in 1..MaxFileSize
            /\ k >= 1
            /\ (k - 1) * ChunkSize < size
            /\ size <= k * ChunkSize
            /\ size = 1 => k = 1
            /\ size % ChunkSize = 0 => k = size \div ChunkSize

\* A session whose declared size is an exact multiple of the chunk size has
\* been created and its initialize has answered.
C37_Witness ==
  \E p \in Procs :
    /\ Done(p, "init") /\ loc[p].result = "created"
    /\ uploads[loc[p].sid].fileSize = ChunkSize
    /\ uploads[loc[p].sid].totalChunks = 1

StrictlyAscending(seq) ==
  \A a, b \in DOMAIN seq : a < b => seq[a] < seq[b]

\* C38: for every set S of recorded indices, in whatever order their keys
\* are listed, and every totalChunks, getChunkIndices returns the elements
\* of S in ascending order without duplicates, and getMissingChunks returns
\* exactly 0..totalChunks-1 without S, in ascending order.
C38_IndicesAndMissing ==
  \A p \in Procs :
    (pc[p] = "done" /\ loc[p].op = "indices")
      => LET S == { i \in 0..MaxKeyIndex :
                      \E k \in DOMAIN loc[p].keys :
                        loc[p].keys[k] = getChunkKey(TestUpload, i) }
         IN /\ StrictlyAscending(loc[p].indexList)
            /\ Range(loc[p].indexList) = S
            /\ Len(loc[p].indexList) = Len(loc[p].keys)
            /\ StrictlyAscending(loc[p].missing)
            /\ Range(loc[p].missing) = (0..(loc[p].size - 1)) \ S

\* The keys of indices 10 and 2 were listed in that order; the indices came
\* back as 2, 10 and the missing list has the other nine of eleven.
C38_Witness ==
  \E p \in Procs :
    /\ pc[p] = "done" /\ loc[p].op = "indices"
    /\ Len(loc[p].keys) = 2
    /\ MatchIndex(loc[p].keys[1]) = MaxKeyIndex
    /\ MatchIndex(loc[p].keys[2]) < MaxKeyIndex
    /\ MatchIndex(loc[p].keys[2]) > 1
    /\ loc[p].indexList[2] = MaxKeyIndex
    /\ loc[p].size = MaxKeyIndex + 1
    /\ Len(loc[p].missing) = MaxKeyIndex - 1

\* C39: once a session has left INIT no step sets its status back to INIT;
\* INIT is written only by the INSERT of initialize, into a row that did not
\* exist.
C39_NeverBackToInit ==
  [][\A s \in Sessions :
       (uploads'[s].status = "INIT" /\ uploads[s].status # "INIT")
         => /\ uploads[s].status = "NONE"
            /\ \E p \in Procs :
                 /\ pc[p] = "in_db" /\ loc[p].op = "init" /\ loc[p].sid = s
                 /\ pc'[p] = "in_cache"]_vars

\* A session has been taken out of INIT by a chunk upload and has been set
\* to FAILED by the sweep since; both requests are answered.
C39_Witness ==
  \E p, q \in Procs :
    /\ Done(p, "upload") /\ loc[p].result = "uploaded"
    /\ pc[q] = "done" /\ loc[q].op = "sweep" /\ loc[q].cleaned = 1
    /\ uploads[loc[p].sid].status = "FAILED"

=============================================================================
